---------------------------- MODULE Spec2Model ----------------------------
(***************************************************************************)
(* A model of flexio (src/src/flexio/flexio.py): the factory flex_open,    *)
(* the wrappers FlexTextIO and FlexBinaryIO, the seeded                    *)
(* SpooledTemporaryFile and the mode check cover_wre / compute_wre.        *)
(*                                                                         *)
(* A mode string is a sequence of one-character strings; the empty         *)
(* sequence stands for every falsy mode argument (None and ''), which the  *)
(* code never tells apart (`if mode`, `mode or 'rt'`).                     *)
(***************************************************************************)
EXTENDS Integers, Sequences, FiniteSets, TLC

VARIABLES streams, wrappers, last, l_mode, r_mode, covered

vars == <<streams, wrappers, last, l_mode, r_mode, covered>>

(* ---------------------------- bounds ----------------------------------- *)

\* longest mode string handed to cover_wre in SpecMode
MaxModeLen == 3
\* longest payload (init, write argument, stream content)
MaxLen == 2
\* stream objects that can exist at once
MaxStreams == 1
\* wrapper objects that can exist at once
MaxWrappers == 2

(* ------------------------- mode strings -------------------------------- *)

\* the platform's mode vocabulary (spec section 6): r w a + t b
ModeChars == {"r", "w", "a", "+", "t", "b"}

RECURSIVE StringsUpTo(_)
StringsUpTo(n) ==
    IF n = 0 THEN {<<>>}
    ELSE LET shorter == StringsUpTo(n - 1)
         IN  shorter \cup {Append(s, c) : s \in shorter, c \in ModeChars}

ModeStrings == StringsUpTo(MaxModeLen)

\* Python's `c in mode`
In(c, mode) == \E i \in 1..Len(mode) : mode[i] = c

CharSet(mode) == {mode[i] : i \in 1..Len(mode)}

\* the `mode` attribute of a stream handed in: the platform sets it and
\* repeats no flag in it; the mode a caller asks for is any string
StreamModes == {m \in ModeStrings : Len(m) = Cardinality(CharSet(m))}

\* Python's `a & b` on the 3-bit values compute_wre produces
BitAnd(a, b) ==
    ((a % 2) * (b % 2))
    + 2 * (((a \div 2) % 2) * ((b \div 2) % 2))
    + 4 * (((a \div 4) % 2) * ((b \div 4) % 2))

\* a plausible slip: 'a' forgotten among the writable flags
compute_wre_no_append(mode) ==
    (IF In("+", mode) \/ In("r", mode) THEN 1 ELSE 0)
    + (IF In("+", mode) \/ In("w", mode) THEN 2 ELSE 0)
    + (IF In("b", mode) THEN 4 ELSE 0)

compute_wre(mode) ==
    (IF In("+", mode) \/ In("r", mode) THEN 1 ELSE 0)
    + (IF In("+", mode) \/ In("w", mode) \/ In("a", mode) THEN 2 ELSE 0)
    + (IF In("b", mode) THEN 4 ELSE 0)

\* a plausible slip: equality of the vectors instead of the subset test
cover_wre_equal(lm, rm) == compute_wre(lm) = compute_wre(rm)

cover_wre(lm, rm) ==
    LET lv == compute_wre(lm)
        rv == compute_wre(rm)
    IN  BitAnd(lv, rv) = rv


(* --------------------------- payloads ---------------------------------- *)

PayloadChars == {1}

RECURSIVE PayloadsUpTo(_)
PayloadsUpTo(n) ==
    IF n = 0 THEN {<<>>}
    ELSE LET shorter == PayloadsUpTo(n - 1)
         IN  shorter \cup {Append(s, c) : s \in shorter, c \in PayloadChars}

Payloads == PayloadsUpTo(MaxLen)

\* the `init` argument: absent (None), a str or a bytes value
NoInit == [kind |-> "none", data |-> <<>>]
Inits == {NoInit} \cup [kind : {"text", "bytes"}, data : Payloads]

\* the mode arguments callers pass (the empty sequence: no mode given)
ModeArgs == { <<>>, <<"r">>, <<"r", "+">>, <<"w">>, <<"w", "+">>,
              <<"r", "b">>, <<"w", "b">>, <<"w", "b", "+">> }

\* the close_io argument: left out, or passed as None, True or False
CloseArgs == {"absent", "None", "True", "False"}

Entries == {"flex_open", "FlexTextIO", "FlexBinaryIO"}

Sources == {"none", "path", "fd", "stream"}

(* ---------------------------- streams ---------------------------------- *)

StreamIds == 1..MaxStreams
WrapperIds == 1..MaxWrappers

\* a stream object: a file from open(), a SpooledTemporaryFile, or an
\* in-memory BytesIO/StringIO (which declares no `mode` attribute)
FreeStream == [st |-> "free", kind |-> "file", ext |-> FALSE, mode |-> <<>>,
               binary |-> FALSE, content |-> <<>>, pos |-> 0]

NoWrapper == [live |-> FALSE, cls |-> "FlexTextIO", io |-> 0,
              close_io |-> FALSE, scope |-> "out"]

\* what an existing file holds when it is opened
FileContent == <<1>>

HasMode(s) == s.kind # "mem"

Readable(mode) == In("r", mode) \/ In("+", mode)
Writable(mode) == In("w", mode) \/ In("a", mode) \/ In("+", mode)

\* the mode open() reports: a text stream keeps the string it was given, a
\* binary one is renamed ('wb+' comes back as 'rb+')
OpenMode(mode) ==
    IF ~In("b", mode) THEN mode
    ELSE IF In("a", mode)
         THEN (IF In("+", mode) THEN <<"a", "b", "+">> ELSE <<"a", "b">>)
    ELSE IF In("+", mode) THEN <<"r", "b", "+">>
    ELSE IF In("r", mode) THEN <<"r", "b">>
    ELSE <<"w", "b">>

\* open(f, mode): the stream the platform hands back
OpenedFile(mode, external) ==
    [st |-> "open", kind |-> "file", ext |-> external, mode |-> OpenMode(mode),
     binary |-> In("b", mode),
     content |-> IF In("w", mode) THEN <<>> ELSE FileContent,
     pos |-> IF In("a", mode) THEN Len(FileContent) ELSE 0]

\* BytesIO(data) / StringIO(data), holding what the file held
MemoryStream(binary) ==
    [st |-> "open", kind |-> "mem", ext |-> TRUE, mode |-> <<>>,
     binary |-> binary, content |-> FileContent, pos |-> 0]

FreeIds == {i \in StreamIds : streams[i].st = "free"}
FreshId == CHOOSE i \in FreeIds : \A j \in FreeIds : i <= j

FreeWrappers == {w \in WrapperIds : ~wrappers[w].live}
FreshWrapper == CHOOSE w \in FreeWrappers : \A v \in FreeWrappers : w <= v

\* stream.close(): closes; a no-op on a closed stream
StreamClose(s) == [s EXCEPT !.st = "closed"]

(* ----------------------- the last operation ---------------------------- *)

\* What the caller saw of the latest call: which operation on which wrapper
\* and stream, its arguments, how it ended (ok or the exception raised), what
\* it returned, the stream as it was before the call, and for close() whether
\* the call before it was a close() of the same wrapper.

NoCall == [op |-> "none", w |-> 0, s |-> 0, outcome |-> "ok",
           entry |-> "flex_open", src |-> "none", mode |-> <<>>,
           init |-> NoInit, close_arg |-> "absent", opened |-> FALSE,
           pre |-> FreeStream, exc |-> FALSE, again |-> FALSE,
           data |-> <<>>, num |-> 0]

(* -------------------------- construction ------------------------------ *)

\* the value close_io has when the caller leaves it out (the signatures)
DefaultCloseIo(entry) ==
    CASE entry = "flex_open" -> "True"
      [] entry = "FlexTextIO" -> "None"
      [] entry = "FlexBinaryIO" -> "True"

\* `True if close_io is None else close_io` where the wrapper opened the
\* stream, `False if close_io is None else close_io` where it was handed in
ResolveCloseIo(close, owns) == IF close = "None" THEN owns ELSE close = "True"

\* is_file_pointer(f): a path (str, bytes, PathLike) or a descriptor number
is_file_pointer(src) == src \in {"path", "fd"}

\* the result of a constructor call: the outcome, whether a stream was
\* opened or provisioned on the way, the new stream if the wrapper keeps one,
\* and the close policy the wrapper stores
Failed(err, opened) ==
    [outcome |-> err, opened |-> opened, fresh |-> FALSE, made |-> FreeStream,
     close_io |-> FALSE]

\* a store that is seeded but not sought back to the start
SpooledNoRewind(init, mode) ==
    LET binary == In("b", mode)
        seeded == init.kind # "none" /\ Len(init.data) > 0
        store  == [st |-> "open", kind |-> "spooled", ext |-> FALSE,
                   mode |-> mode, binary |-> binary,
                   content |-> IF seeded THEN init.data ELSE <<>>,
                   pos |-> IF seeded THEN Len(init.data) ELSE 0]
    IN  IF seeded /\ (init.kind = "bytes") # binary
        THEN [outcome |-> "TypeError", store |-> FreeStream]
        ELSE [outcome |-> "ok", store |-> store]

\* SpooledTemporaryFile(init, mode=...): the store, seeded when init is truthy
SpooledTemporaryFile(init, mode) ==
    LET binary == In("b", mode)
        seeded == init.kind # "none" /\ Len(init.data) > 0
        store  == [st |-> "open", kind |-> "spooled", ext |-> FALSE,
                   mode |-> mode, binary |-> binary,
                   content |-> IF seeded THEN init.data ELSE <<>>,
                   pos |-> 0]
    IN  IF seeded /\ (init.kind = "bytes") # binary
        THEN [outcome |-> "TypeError", store |-> FreeStream]
        ELSE [outcome |-> "ok", store |-> store]

\* the body both classes share after their own mode check (lines 60-87 and
\* 190-215), `dflt` being 'rt' or 'rb'
ResolveSource(src, f, mode, init, close, exists, dflt) ==
    IF src = "none" THEN
        LET m == IF mode # <<>> THEN mode ELSE dflt
            t == SpooledTemporaryFile(init, m)
        IN  IF t.outcome # "ok" THEN Failed(t.outcome, TRUE)
            ELSE [outcome |-> "ok", opened |-> TRUE, fresh |-> TRUE,
                  made |-> t.store, close_io |-> ResolveCloseIo(close, TRUE)]
    ELSE IF is_file_pointer(src) THEN
        LET m == IF mode # <<>> THEN mode ELSE dflt
        IN  IF init.kind # "none" THEN Failed("ValueError", FALSE)
            ELSE IF ~exists /\ ~In("w", m) /\ ~In("a", m)
                 THEN Failed("FileNotFoundError", FALSE)
            ELSE [outcome |-> "ok", opened |-> TRUE, fresh |-> TRUE,
                  made |-> OpenedFile(m, FALSE),
                  close_io |-> ResolveCloseIo(close, TRUE)]
    ELSE
        IF ~HasMode(f) THEN Failed("AttributeError", FALSE)
        ELSE IF mode # <<>> /\ ~cover_wre(f.mode, mode)
             THEN Failed("ValueError", FALSE)
        ELSE [outcome |-> "ok", opened |-> FALSE, fresh |-> FALSE,
              made |-> FreeStream, close_io |-> ResolveCloseIo(close, FALSE)]

\* FlexTextIO.__init__
FlexTextIO(src, f, mode, init, close, exists) ==
    IF mode # <<>> /\ In("b", mode) THEN Failed("ValueError", FALSE)
    ELSE ResolveSource(src, f, mode, init, close, exists, <<"r", "t">>)

\* FlexBinaryIO.__init__
FlexBinaryIO(src, f, mode, init, close, exists) ==
    IF mode # <<>> /\ ~In("b", mode) THEN Failed("ValueError", FALSE)
    ELSE ResolveSource(src, f, mode, init, close, exists, <<"r", "b">>)

\* the class flex_open picks; "error" when reading f.mode raises
FlexOpenClass(src, f, mode) ==
    IF src = "none" \/ is_file_pointer(src)
    THEN (IF mode # <<>>
          THEN (IF In("b", mode) THEN "FlexBinaryIO" ELSE "FlexTextIO")
          ELSE "FlexBinaryIO")
    ELSE IF ~HasMode(f) THEN "error"
    ELSE IF In("b", f.mode) THEN "FlexBinaryIO" ELSE "FlexTextIO"

\* the class of the wrapper a call builds
ClassOf(entry, src, f, mode) ==
    IF entry = "flex_open" THEN FlexOpenClass(src, f, mode) ELSE entry

\* a call of one of the three entry points, close_arg as the caller wrote it
Call(entry, src, f, mode, init, close_arg, exists) ==
    LET close == IF close_arg = "absent" THEN DefaultCloseIo(entry)
                 ELSE close_arg
        cls   == ClassOf(entry, src, f, mode)
    IN  IF cls = "error" THEN Failed("AttributeError", FALSE)
        ELSE IF cls = "FlexBinaryIO"
             THEN FlexBinaryIO(src, f, mode, init, close, exists)
        ELSE FlexTextIO(src, f, mode, init, close, exists)

\* the streams the caller holds and may hand in
HandedIn == {i \in StreamIds : streams[i].st # "free" /\ streams[i].ext}

Construct(entry, src, s, mode, init, close_arg, exists) ==
    /\ FreeWrappers # {}
    /\ IF src = "stream" THEN s \in HandedIn ELSE s = 0
    /\ src = "path" \/ exists
    /\ LET f == IF s = 0 THEN FreeStream ELSE streams[s]
           r == Call(entry, src, f, mode, init, close_arg, exists)
           w == FreshWrapper
       IN  /\ r.fresh => FreeIds # {}
           /\ LET io == IF r.fresh THEN FreshId ELSE s
              IN  /\ streams' = IF r.fresh
                                THEN [streams EXCEPT ![io] = r.made]
                                ELSE streams
                  /\ wrappers' = IF r.outcome = "ok"
                                 THEN [wrappers EXCEPT ![w] =
                                         [live |-> TRUE,
                                          cls |-> ClassOf(entry, src, f, mode),
                                          io |-> io, close_io |-> r.close_io,
                                          scope |-> "out"]]
                                 ELSE wrappers
                  /\ last' = [NoCall EXCEPT
                                !.op = "construct",
                                !.w = IF r.outcome = "ok" THEN w ELSE 0,
                                !.s = IF r.outcome = "ok" THEN io ELSE s,
                                !.outcome = r.outcome, !.entry = entry,
                                !.src = src, !.mode = mode, !.init = init,
                                !.close_arg = close_arg,
                                !.opened = r.opened, !.pre = f]
    /\ UNCHANGED <<l_mode, r_mode, covered>>

(* ------------------------ the caller's streams ------------------------- *)

\* the caller opens a file of its own (path.open(mode)) ...
ExternalOpen(mode) ==
    /\ FreeIds # {}
    /\ mode # <<>>
    /\ streams' = [streams EXCEPT ![FreshId] = OpenedFile(mode, TRUE)]
    /\ last' = [NoCall EXCEPT !.op = "external_open", !.s = FreshId]
    /\ UNCHANGED <<wrappers, l_mode, r_mode, covered>>

\* ... or makes a BytesIO / StringIO
ExternalMemory(binary) ==
    /\ FreeIds # {}
    /\ streams' = [streams EXCEPT ![FreshId] = MemoryStream(binary)]
    /\ last' = [NoCall EXCEPT !.op = "external_open", !.s = FreshId]
    /\ UNCHANGED <<wrappers, l_mode, r_mode, covered>>

\* the caller closes its own stream (the outer `with` of the tests ends)
ExternalClose(s) ==
    /\ s \in HandedIn
    /\ streams[s].st = "open"
    /\ streams' = [streams EXCEPT ![s] = StreamClose(@)]
    /\ last' = [NoCall EXCEPT !.op = "external_close", !.s = s,
                              !.pre = streams[s]]
    /\ UNCHANGED <<wrappers, l_mode, r_mode, covered>>

(* ------------------------- wrapper operations -------------------------- *)

Live == {w \in WrapperIds : wrappers[w].live}

\* the wrapper's `closed` property: self._io.closed
closed(w) == streams[wrappers[w].io].st = "closed"

\* __enter__: returns self
Enter(w) ==
    /\ w \in Live
    /\ wrappers[w].scope # "in"
    /\ wrappers' = [wrappers EXCEPT ![w].scope = "in"]
    /\ last' = [NoCall EXCEPT !.op = "enter", !.w = w, !.s = wrappers[w].io,
                              !.pre = streams[wrappers[w].io]]
    /\ UNCHANGED <<streams, l_mode, r_mode, covered>>

\* an __exit__ that closes whatever the policy says
ExitAlwaysCloses(w, s) == StreamClose(s)

\* what __exit__ does to the stream: `if self._close_io: self._io.close()`
ExitStream(w, s) == IF wrappers[w].close_io THEN StreamClose(s) ELSE s

\* __exit__(exc_type, exc_val, exc_tb): exc tells whether the body raised;
\* the method returns None, so the exception goes on to the caller
Exit(w, exc) ==
    /\ w \in Live
    /\ wrappers[w].scope = "in"
    /\ LET io == wrappers[w].io
       IN  /\ streams' = [streams EXCEPT ![io] = ExitStream(w, @)]
           /\ last' = [NoCall EXCEPT !.op = "exit", !.w = w, !.s = io,
                                     !.pre = streams[io], !.exc = exc]
    /\ wrappers' = [wrappers EXCEPT ![w].scope = "out"]
    /\ UNCHANGED <<l_mode, r_mode, covered>>

\* a close() that raises on a wrapper closed before
CloseRaisesWhenClosed(w) ==
    IF closed(w) THEN [outcome |-> "ValueError", stream |-> streams[wrappers[w].io]]
    ELSE [outcome |-> "ok", stream |-> StreamClose(streams[wrappers[w].io])]

\* close(): self._io.close(), whatever the close policy
CloseResult(w) ==
    [outcome |-> "ok", stream |-> StreamClose(streams[wrappers[w].io])]

Close(w) ==
    /\ w \in Live
    /\ LET io == wrappers[w].io
           r  == CloseResult(w)
       IN  /\ streams' = [streams EXCEPT ![io] = r.stream]
           /\ last' = [NoCall EXCEPT !.op = "close", !.w = w, !.s = io,
                                     !.outcome = r.outcome,
                                     !.pre = streams[io],
                                     !.again = (last.op = "close" /\ last.w = w)]
    /\ UNCHANGED <<wrappers, l_mode, r_mode, covered>>

\* whether a call of `op` on wrapper w calls self._io.close(): close()
\* always does, __exit__ does under a true policy; neither looks at whether
\* the stream was closed before
IssuesClose(op, w) == op = "close" \/ (op = "exit" /\ wrappers[w].close_io)

(* ------------------------ forwarded operations ------------------------- *)

ReadOps == {"read", "readline", "readlines", "next"}
WriteOps == {"write", "writelines", "truncate"}
OpNames == ReadOps \cup WriteOps \cup
           {"seek", "tell", "flush", "readable", "writable", "seekable", "iter"}

Ret(s, data, num) == [outcome |-> "ok", data |-> data, num |-> num, stream |-> s]
Raise(err, s) == [outcome |-> err, data |-> <<>>, num |-> 0, stream |-> s]

Overwrite(content, pos, d) ==
    SubSeq(content, 1, pos) \o d \o SubSeq(content, pos + Len(d) + 1, Len(content))

\* what the platform's streams answer once closed: a file opened for one
\* direction still answers the predicate of the other (BufferedReader.writable
\* and BufferedWriter.readable return False without looking at `closed`), its
\* binary form refuses the other direction's transfer as unsupported, and
\* BytesIO.__iter__ hands itself back; everything else raises ValueError
ClosedOp(s, op) ==
    IF s.kind = "file" THEN
        IF op = "writable" /\ ~Writable(s.mode) THEN Ret(s, <<>>, 0)
        ELSE IF op = "readable" /\ ~Readable(s.mode) THEN Ret(s, <<>>, 0)
        ELSE IF s.binary /\ ~Writable(s.mode) /\ op = "write"
             THEN Raise("UnsupportedOperation", s)
        ELSE IF s.binary /\ ~Readable(s.mode) /\ op \in {"read", "readline", "next"}
             THEN Raise("UnsupportedOperation", s)
        ELSE Raise("ValueError", s)
    ELSE IF s.binary /\ op = "iter" THEN Ret(s, <<>>, 0)
    ELSE IF s.kind = "mem" /\ ~s.binary /\ op = "flush" THEN Ret(s, <<>>, 0)
    ELSE Raise("ValueError", s)

\* the same on an open stream; a spooled or in-memory store allows both
\* directions whatever its mode says
OpenOp(s, op, d) ==
    LET canRead  == s.kind # "file" \/ Readable(s.mode)
        canWrite == s.kind # "file" \/ Writable(s.mode)
        rest     == SubSeq(s.content, s.pos + 1, Len(s.content))
        at       == IF s.kind = "file" /\ In("a", s.mode)
                    THEN Len(s.content) ELSE s.pos
        bool(b)  == IF b THEN 1 ELSE 0
    IN  CASE op \in ReadOps /\ ~canRead -> Raise("UnsupportedOperation", s)
          [] op \in WriteOps /\ ~canWrite -> Raise("UnsupportedOperation", s)
          [] op = "next" /\ canRead /\ rest = <<>> -> Raise("StopIteration", s)
          [] op = "next" /\ canRead /\ rest # <<>> ->
                Ret([s EXCEPT !.pos = Len(s.content)], rest, 0)
          [] op \in {"read", "readline", "readlines"} /\ canRead ->
                Ret([s EXCEPT !.pos = Len(s.content)], rest, 0)
          [] op \in {"write", "writelines"} /\ canWrite ->
                Ret([s EXCEPT !.content = Overwrite(s.content, at, d),
                              !.pos = at + Len(d)], <<>>, Len(d))
          [] op = "truncate" /\ canWrite ->
                Ret([s EXCEPT !.content = SubSeq(s.content, 1, s.pos)], <<>>, s.pos)
          [] op = "seek" -> Ret([s EXCEPT !.pos = 0], <<>>, 0)
          [] op = "tell" -> Ret(s, <<>>, s.pos)
          [] op = "readable" -> Ret(s, <<>>, bool(canRead))
          [] op = "writable" -> Ret(s, <<>>, bool(canWrite))
          [] op = "seekable" -> Ret(s, <<>>, 1)
          [] op \in {"flush", "iter"} -> Ret(s, <<>>, 0)

\* the call before this one built wrapper w: the operation is the first on it
\* (for a read(), `last` then keeps the source, mode and init w was built with)
JustBuilt(w) == last.op = "construct" /\ last.outcome = "ok" /\ last.w = w

\* a wrapper with a handle of its own, which another wrapper's close() would
\* not reach
ForwardToOwnHandle(w, op, d) == OpenOp(streams[wrappers[w].io], op, d)

\* every pass-through method: `return self._io.<op>(...)`, no check of the
\* wrapper's own
Forward(w, op, d) ==
    LET s == streams[wrappers[w].io]
    IN  IF s.st = "closed" THEN ClosedOp(s, op) ELSE OpenOp(s, op, d)

Op(w, op, d) ==
    /\ w \in Live
    /\ op \in {"write", "writelines"} \/ d = <<>>
    /\ LET io == wrappers[w].io
           r  == Forward(w, op, d)
           first == op = "read" /\ JustBuilt(w)
       IN  /\ Len(r.stream.content) <= MaxLen
           /\ streams' = [streams EXCEPT ![io] = r.stream]
           /\ last' = [NoCall EXCEPT !.op = op, !.w = w, !.s = io,
                                     !.outcome = r.outcome, !.data = r.data,
                                     !.num = r.num,
                                     !.pre = [FreeStream EXCEPT
                                                !.st = streams[io].st],
                                     !.again = first,
                                     !.src = IF first THEN last.src ELSE "none",
                                     !.mode = IF first THEN last.mode ELSE <<>>,
                                     !.init = IF first THEN last.init ELSE NoInit]
    /\ UNCHANGED <<wrappers, l_mode, r_mode, covered>>

(* --------------------------- the mode check ---------------------------- *)

NotCalled == [done |-> FALSE, value |-> FALSE, lv |-> 0, rv |-> 0]

\* cover_wre(l_mode, r_mode) is called and its result kept
CallCover ==
    /\ ~covered.done
    /\ covered' = [done |-> TRUE, value |-> cover_wre(l_mode, r_mode),
                   lv |-> compute_wre(l_mode), rv |-> compute_wre(r_mode)]
    /\ UNCHANGED <<streams, wrappers, last, l_mode, r_mode>>

(* -------------------------- specifications ----------------------------- *)

Init ==
    /\ streams = [i \in StreamIds |-> FreeStream]
    /\ wrappers = [w \in WrapperIds |-> NoWrapper]
    /\ last = NoCall
    /\ l_mode = <<>>
    /\ r_mode = <<>>
    /\ covered = NotCalled

\* The calls the model makes.  The first wrapper is built from every
\* combination of arguments; a further one is built while the first is alive,
\* over the stream the caller holds, with no mode and no init.  A call that
\* failed changed nothing, so the next call comes after some other step.
Settled == last.op # "construct" \/ last.outcome = "ok"
SourcesNow == IF Live = {} THEN Sources ELSE {"stream"}
ModesNow == IF Live = {} THEN ModeArgs ELSE {<<>>}
InitsNow == IF Live = {} THEN Inits ELSE {NoInit}

Next ==
    \/ /\ Settled
       /\ \E entry \in Entries, src \in SourcesNow, s \in 0..MaxStreams,
             mode \in ModesNow, init \in InitsNow, close_arg \in CloseArgs,
             exists \in BOOLEAN :
               Construct(entry, src, s, mode, init, close_arg, exists)
    \/ \E mode \in ModeArgs : ExternalOpen(mode)
    \/ \E binary \in BOOLEAN : ExternalMemory(binary)
    \/ \E s \in StreamIds : ExternalClose(s)
    \/ \E w \in WrapperIds : Enter(w)
    \/ \E w \in WrapperIds, exc \in BOOLEAN : Exit(w, exc)
    \/ \E w \in WrapperIds : Close(w)
    \/ \E w \in WrapperIds, op \in OpNames, d \in Payloads : Op(w, op, d)

Spec == Init /\ [][Next]_vars

\* the mode check alone, over every mode string up to MaxModeLen
InitMode ==
    /\ streams = [i \in StreamIds |-> FreeStream]
    /\ wrappers = [w \in WrapperIds |-> NoWrapper]
    /\ last = NoCall
    /\ l_mode \in StreamModes
    /\ r_mode \in ModeStrings
    /\ covered = NotCalled

NextMode == CallCover

SpecMode == InitMode /\ [][NextMode]_vars

(* ------------------------------ claims --------------------------------- *)

\* ValueError and its subclass io.UnsupportedOperation: how the platform's
\* streams refuse an operation
StateErrors == {"ValueError", "UnsupportedOperation"}

\* C1: leaving the `with` scope closes the underlying stream exactly when the
\* wrapper's close policy is true, whether or not the body raised; with a
\* false policy the stream is left exactly as it was.
C1_ExitClosesIffPolicy ==
    last.op = "exit" =>
        LET policy == wrappers[last.w].close_io
            now    == streams[last.s]
        IN  /\ policy => now = [last.pre EXCEPT !.st = "closed"]
            /\ ~policy => now = last.pre
            /\ (now.st = "closed") = (policy \/ last.pre.st = "closed")

C1_Witness ==
    /\ last.op = "exit"
    /\ last.exc
    /\ wrappers[last.w].close_io
    /\ last.pre.st = "open"
    /\ streams[last.s].st = "closed"

\* C2: when the caller leaves close_io out, the policy the wrapper stores is
\* ownership: true when the wrapper opened the stream, false when the stream
\* was handed in.
C2_DefaultPolicyIsOwnership ==
    (last.op = "construct" /\ last.outcome = "ok" /\ last.close_arg = "absent")
        => wrappers[last.w].close_io = (last.src # "stream")

\* C3: closing a wrapper of a handed-in stream, by close() or by scope exit,
\* closes that stream exactly when the close policy is true.
C3_CloseHonoursPolicy ==
    (last.op \in {"close", "exit"} /\ last.pre.ext /\ last.pre.st = "open")
        => (streams[last.s].st = "closed") = wrappers[last.w].close_io

\* C4: close() never raises and leaves the wrapper closed, and a close() of a
\* wrapper that is closed already changes nothing of the stream.
C4_CloseIdempotent ==
    last.op = "close" =>
        /\ last.outcome = "ok"
        /\ closed(last.w)
        /\ last.pre.st = "closed" => streams[last.s] = last.pre

C4_Witness ==
    /\ last.op = "close"
    /\ last.again
    /\ last.pre.st = "closed"
    /\ last.outcome = "ok"

\* C5: closed is terminal, and on a closed wrapper every forwarded operation
\* (read, readline, readlines, write, writelines, seek, tell, truncate, flush,
\* readable, writable, seekable, line iteration) raises instead of returning.
C5_ClosedRefusesAll ==
    (last.w # 0 /\ last.op # "construct" /\ last.pre.st = "closed") =>
        /\ closed(last.w)
        /\ last.op \in OpNames \ {"iter"} => last.outcome \in StateErrors

\* the three capabilities, read off the set of characters of a mode string
WantsRead(mode) == \E i \in 1..Len(mode) : mode[i] \in {"+", "r"}
WantsWrite(mode) == \E i \in 1..Len(mode) : mode[i] \in {"+", "w", "a"}
WantsBinary(mode) == \E i \in 1..Len(mode) : mode[i] = "b"

Reverse(mode) == [i \in 1..Len(mode) |-> mode[Len(mode) + 1 - i]]

\* C6: cover_wre(actual, requested) is true exactly when each capability
\* the requested mode names (bit0 readable, bit1 writable, bit2 binary) is
\* one the actual mode names too; the vectors carry exactly those bits, and
\* neither the order nor the repetition of characters matters.
C6_CoverIsSubsetOfFlags ==
    covered.done =>
        /\ (covered.lv % 2 = 1) = WantsRead(l_mode)
        /\ ((covered.lv \div 2) % 2 = 1) = WantsWrite(l_mode)
        /\ ((covered.lv \div 4) % 2 = 1) = WantsBinary(l_mode)
        /\ covered.lv \in 0..7
        /\ (covered.rv % 2 = 1) = WantsRead(r_mode)
        /\ ((covered.rv \div 2) % 2 = 1) = WantsWrite(r_mode)
        /\ ((covered.rv \div 4) % 2 = 1) = WantsBinary(r_mode)
        /\ covered.rv \in 0..7
        /\ covered.value = ( /\ WantsRead(r_mode) => WantsRead(l_mode)
                             /\ WantsWrite(r_mode) => WantsWrite(l_mode)
                             /\ WantsBinary(r_mode) => WantsBinary(l_mode) )
        /\ covered.value = cover_wre(Reverse(l_mode) \o l_mode, r_mode \o r_mode)

C6_Witness ==
    /\ covered.done
    /\ covered.value
    /\ covered.lv # covered.rv
    /\ Len(r_mode) > Cardinality(CharSet(r_mode))
    /\ WantsWrite(r_mode)

\* a mode string open() accepts: one of r, w, a; at most one `+`; at most
\* one of t and b; no character twice
IsMode(mode) ==
    /\ Len(mode) = Cardinality(CharSet(mode))
    /\ Cardinality(CharSet(mode) \cap {"r", "w", "a"}) = 1
    /\ Cardinality(CharSet(mode) \cap {"t", "b"}) <= 1

\* the modes the transitivity of cover_wre is probed with: one per vector
ProbeModes == { <<>>, <<"r">>, <<"a">>, <<"w", "+">>, <<"b">>, <<"r", "b">>,
                <<"w", "b">>, <<"r", "b", "+">> }

CoverFacts ==
    /\ (WantsRead(l_mode) /\ WantsWrite(l_mode)
            /\ WantsBinary(l_mode) = WantsBinary(r_mode)) => covered.value
    /\ (~WantsWrite(l_mode) /\ WantsWrite(r_mode)) => ~covered.value

\* C7 as claimed: over the modes open() accepts, cover_wre is reflexive,
\* transitive and antisymmetric (two modes that cover each other are the same
\* set of flags); read+write covers read-only and write-only of its flavor;
\* read-only does not cover write-only.
C7_PartialOrder ==
    (covered.done /\ IsMode(l_mode) /\ IsMode(r_mode)) =>
        /\ l_mode = r_mode => covered.value
        /\ covered.value =>
              \A m \in ProbeModes : cover_wre(r_mode, m) => cover_wre(l_mode, m)
        /\ (covered.value /\ cover_wre(r_mode, l_mode))
              => CharSet(l_mode) = CharSet(r_mode)
        /\ CoverFacts

\* C7 as amended: over every stream mode and every requested mode string,
\* accepted by open() or not, cover_wre is a preorder (reflexive and
\* transitive); two modes cover each other exactly when their capability
\* vectors are equal, which different modes can have; read+write covers
\* read-only and write-only of its flavor; read-only does not cover
\* write-only.
C7_Preorder ==
    covered.done =>
        /\ l_mode = r_mode => covered.value
        /\ covered.value =>
              \A m \in ProbeModes : cover_wre(r_mode, m) => cover_wre(l_mode, m)
        /\ (covered.value /\ cover_wre(r_mode, l_mode))
              = (covered.lv = covered.rv)
        /\ CoverFacts

C7_Witness ==
    /\ covered.done
    /\ IsMode(l_mode)
    /\ IsMode(r_mode)
    /\ covered.value
    /\ cover_wre(r_mode, l_mode)
    /\ CharSet(l_mode) # CharSet(r_mode)
    /\ WantsBinary(l_mode)

\* C8: with an existing stream and a mode, construction ends in success or
\* in ValueError; it succeeds only if the stream's own mode covers the one
\* asked for; nothing is opened; and a failure leaves the stream as it was
\* and builds no wrapper.
C8_StreamModeChecked ==
    (last.op = "construct" /\ last.src = "stream" /\ last.mode # <<>>) =>
        /\ last.outcome \in {"ok", "ValueError"}
        /\ last.outcome = "ok" =>
              (HasMode(last.pre) /\ cover_wre(last.pre.mode, last.mode))
        /\ ~last.opened
        /\ streams[last.s] = last.pre
        /\ last.outcome # "ok" => last.w = 0

\* C9: `init` together with a path, a descriptor or an existing stream ends
\* in ValueError before anything is opened and leaves a handed-in stream as
\* it was.
C9_InitOnlyWithoutSource ==
    (last.op = "construct" /\ last.init.kind # "none" /\ last.src # "none") =>
        /\ last.outcome = "ValueError"
        /\ ~last.opened
        /\ last.w = 0
        /\ last.src = "stream" => streams[last.s] = last.pre

\* the flavor of the store a call with no source provisions
StoreIsBinary ==
    IF last.entry = "flex_open" THEN last.mode = <<>> \/ In("b", last.mode)
    ELSE last.entry = "FlexBinaryIO"

\* C10: with no source, an `init` of the other flavor than the store's (str
\* for a binary store, bytes for a text one) ends in ValueError and no
\* wrapper is returned.
C10_WrongFlavourInitRejected ==
    (last.op = "construct" /\ last.src = "none" /\ last.init.kind # "none"
        /\ (last.init.kind = "text") = StoreIsBinary) =>
        /\ last.outcome = "ValueError"
        /\ last.w = 0

\* C11: a call on an existing stream whose mode argument is of the other
\* flavor than the stream, or whose class is, ends in ValueError; so every
\* wrapper built is of the flavor of its stream and of the mode it was
\* given, text or binary.
C11_FlavourEnforced ==
    last.op = "construct" =>
        /\ (last.src = "stream" /\ HasMode(last.pre)
               /\ ( \/ (last.mode # <<>> /\ In("b", last.mode) # last.pre.binary)
                    \/ (last.entry = "FlexTextIO" /\ last.pre.binary)
                    \/ (last.entry = "FlexBinaryIO" /\ ~last.pre.binary) ))
              => last.outcome = "ValueError"
        /\ last.outcome = "ok" =>
              /\ (wrappers[last.w].cls = "FlexBinaryIO") = streams[last.s].binary
              /\ last.mode # <<>> => In("b", last.mode) = streams[last.s].binary

\* C12: a wrapper built with no source holds a store whose content is the
\* `init` given (empty with none) and whose position is 0, and a read() that
\* is the first call on it returns exactly that content, whatever the mode.
C12_SeededStoreReadsInit ==
    /\ (last.op = "construct" /\ last.src = "none" /\ last.outcome = "ok") =>
          /\ streams[last.s].content = last.init.data
          /\ streams[last.s].pos = 0
          /\ streams[last.s].st = "open"
    /\ (last.op = "read" /\ last.again /\ last.src = "none") =>
          /\ last.outcome = "ok"
          /\ last.data = last.init.data
          /\ streams[last.s].content = last.init.data

C12_Witness ==
    /\ last.op = "read"
    /\ last.again
    /\ last.src = "none"
    /\ last.mode = <<"w", "b">>
    /\ last.init.kind = "bytes"
    /\ Len(last.init.data) = MaxLen
    /\ last.data = last.init.data

\* C13: a wrapper that opened its own stream closes it exactly once: no
\* close() and no scope exit calls the stream's close() when the stream was
\* closed through the wrapper before, and after a scope exit under a true
\* policy the stream is closed.
C13_ReleasedExactlyOnce ==
    (last.op \in {"close", "exit"} /\ ~last.pre.ext) =>
        /\ IssuesClose(last.op, last.w) => last.pre.st = "open"
        /\ (last.op = "exit" /\ wrappers[last.w].close_io)
              => streams[last.s].st = "closed"

\* the operations that move data or the position: what a caller does with a
\* stream, as opposed to asking what it can do
TransferOps == ReadOps \cup WriteOps \cup {"seek", "tell", "flush"}

\* the other wrappers over the stream that wrapper w holds
Sharing(w) == {v \in Live \ {w} : wrappers[v].io = wrappers[w].io}

C15_MemoryStreamAccepted ==
    (last.op = "construct" /\ last.entry = "flex_open" /\ last.src = "stream"
        /\ last.pre.kind = "mem" /\ last.pre.st = "open" /\ last.mode # <<>>
        /\ In("b", last.mode) = last.pre.binary /\ last.init = NoInit) =>
        /\ last.outcome = "ok"
        /\ last.w \in Live
        /\ wrappers[last.w].io = last.s
        /\ ~closed(last.w)
        /\ ~last.opened
        /\ last.close_arg = "False" => ~wrappers[last.w].close_io

=============================================================================
